---- MODULE Spec2Model ----
(***************************************************************************)
(* AODVv2 packet writer (src/sys/aodvv2/writer.c).                         *)
(*                                                                         *)
(* Several threads call aodvv2_packet_writer_send_rreq / _send_rrep.  Each *)
(* call locks writer_mutex, copies its arguments into the single static    *)
(* _target, lets the RFC 5444 writer build the message through the         *)
(* callbacks of this file, flushes the packet buffer to the sendPacket     *)
(* callback and unlocks.  One action per statement of the send functions,  *)
(* so that threads interleave wherever the scheduler can switch.           *)
(***************************************************************************)
EXTENDS Integers, Sequences, FiniteSets, TLC

(* ---- bounds of the model ---- *)
NThreads == 2
MaxCalls == 3

(* ---- program constants ---- *)
UINT16_MOD == 65536
AODVV2_MAX_HOPCOUNT == 250

Threads == 1..NThreads

RFC5444_MSGTYPE_RREQ == "RREQ"
RFC5444_MSGTYPE_RREP == "RREP"

RFC5444_MSGTLV_ORIGSEQNUM == "ORIGSEQNUM"
RFC5444_MSGTLV_TARGSEQNUM == "TARGSEQNUM"
RFC5444_MSGTLV_METRIC == "METRIC"

(* address TLV types registered for each message type *)
_rreq_addrtlvs == {RFC5444_MSGTLV_ORIGSEQNUM, RFC5444_MSGTLV_METRIC}
_rrep_addrtlvs ==
    {RFC5444_MSGTLV_ORIGSEQNUM, RFC5444_MSGTLV_TARGSEQNUM, RFC5444_MSGTLV_METRIC}

(* ---- inputs of the calls ---- *)
(* the arguments a caller passes: an aodvv2_packet_data_t and a next hop.   *)
(* The two nodes of a record differ, and every field of one argument pair   *)
(* differs from the same field of the other, so a mixed message shows.      *)
NodeData(a, s, m) == [addr |-> a, seqnum |-> s, metric |-> m]
SendArgs ==
    { [packet_data |-> [origNode |-> NodeData("A", 5, 0),
                        targNode |-> NodeData("B", 0, 1),
                        hoplimit |-> 10],
       next_hop |-> "E"],
      [packet_data |-> [origNode |-> NodeData("C", 65535, 3),
                        targNode |-> NodeData("D", 9, 2),
                        hoplimit |-> 255],
       next_hop |-> "F"] }

(* calls with an absent (NULL) argument: absent names the NULL pointers *)
AbsentArgs ==
    { [packet_data |-> a.packet_data, next_hop |-> a.next_hop, absent |-> n] :
        a \in { b \in SendArgs : b.next_hop = "E" },
        n \in { {"packet_data"}, {"next_hop"} } }

(* all argument pairs a caller may pass *)
Args ==
    { [packet_data |-> a.packet_data, next_hop |-> a.next_hop, absent |-> {}] :
        a \in SendArgs } \cup AbsentArgs

(* contents of the zero-initialised statics before the first send *)
NoData ==
    [origNode |-> NodeData("", 0, 0), targNode |-> NodeData("", 0, 0),
     hoplimit |-> 0]
NoCall ==
    [id |-> 0, type |-> "", packet_data |-> NoData, next_hop |-> "",
     given |-> [packet_data |-> NoData, next_hop |-> "", absent |-> {}]]

(* values of the sequence number counter the node starts from *)
SeqnumStarts == {1, 65534}

VARIABLES
    pc,            \* pc[t]: the statement thread t executes next
    call,          \* call[t]: the call thread t is in: the caller's objects
                   \* packet_data and next_hop as they are now, and
                   \* (history) the arguments as given at the call
    ret,           \* ret[t]: what thread t's last call returned to its caller
    writer_mutex,  \* 0 when unlocked, else the thread that owns it
    _target,       \* the static aodvv2_writer_target_t
    _packet_buffer,\* messages serialised in the packet buffer, not yet flushed
    seqnum,        \* the node's sequence number (seqnum.h)
    sent,          \* history: the invocations of the sendPacket callback
    lockOrder,     \* history: ids of the calls in the order they got the mutex
    ncalls,        \* history: number of calls started
    seqnum0        \* history: the sequence number at start

vars == <<pc, call, ret, writer_mutex, _target, _packet_buffer, seqnum, sent,
          lockOrder, ncalls, seqnum0>>

(* ---- seqnum.h ---- *)
aodvv2_seqnum_get(s) == s

(* variant: plain 16 bit increment, wrapping to 0 *)
aodvv2_seqnum_inc_wrap0(s) == (s + 1) % UINT16_MOD

aodvv2_seqnum_inc(s) == IF s = UINT16_MOD - 1 THEN 1 ELSE s + 1

(* ---- the RFC 5444 writer, as far as this file drives it ---- *)
EmptyHeader ==
    [has_origaddr |-> FALSE, has_hopcount |-> FALSE, has_hoplimit |-> FALSE,
     has_seqno |-> FALSE, hoplimit |-> 0]

NewMessage(type) ==
    [type |-> type, header |-> EmptyHeader, addrs |-> <<>>, tlvs |-> <<>>]

rfc5444_writer_set_msg_header(msg, has_origaddr, has_hopcount, has_hoplimit, has_seqno) ==
    [msg EXCEPT !.header.has_origaddr = has_origaddr,
                !.header.has_hopcount = has_hopcount,
                !.header.has_hoplimit = has_hoplimit,
                !.header.has_seqno = has_seqno]

rfc5444_writer_set_msg_hoplimit(msg, hoplimit) ==
    [msg EXCEPT !.header.hoplimit = hoplimit]

(* appends the address; the address handle is its position in the message *)
rfc5444_writer_add_address(msg, addr, mandatory) ==
    [msg EXCEPT !.addrs = Append(@, [addr |-> addr, mandatory |-> mandatory])]

(* attaches a TLV of a registered type to an address of the message; with  *)
(* allow_dup false a second TLV of the same type on the address is refused *)
rfc5444_writer_add_addrtlv(msg, addrtlvs, address, tlvtype, value, allow_dup) ==
    IF /\ tlvtype \in addrtlvs
       /\ address \in 1..Len(msg.addrs)
       /\ \/ allow_dup
          \/ \A i \in 1..Len(msg.tlvs) :
                ~(msg.tlvs[i].address = address /\ msg.tlvs[i].type = tlvtype)
    THEN [msg EXCEPT !.tlvs = Append(@, [address |-> address, type |-> tlvtype,
                                         value |-> value])]
    ELSE msg

(* ---- callbacks of writer.c ---- *)
_cb_addMessageHeader(msg, target) ==
    rfc5444_writer_set_msg_hoplimit(
        rfc5444_writer_set_msg_header(msg, FALSE, FALSE, TRUE, FALSE),
        target.packet_data.hoplimit)

(* the callback the messages are bound to at registration *)
_cb_add_message_header(msg, target) == _cb_addMessageHeader(msg, target)

(* variant: the RREQ callback advances the sequence number as well *)
_cb_rreq_add_addresses_inc(msg, target, s) ==
    LET m1 == rfc5444_writer_add_address(msg, target.packet_data.origNode.addr,
                                         TRUE)
        m2 == rfc5444_writer_add_address(m1, target.packet_data.targNode.addr,
                                         TRUE)
        m3 == rfc5444_writer_add_addrtlv(m2, _rreq_addrtlvs, 1,
                  RFC5444_MSGTLV_ORIGSEQNUM,
                  target.packet_data.origNode.seqnum, FALSE)
        m4 == rfc5444_writer_add_addrtlv(m3, _rreq_addrtlvs, 1,
                  RFC5444_MSGTLV_METRIC,
                  target.packet_data.origNode.metric, FALSE)
    IN  [msg |-> m4, seqnum |-> aodvv2_seqnum_inc(s)]

(* variant: the target address of a RREQ is not marked mandatory *)
_cb_rreq_add_addresses_targoptional(msg, target, s) ==
    LET m1 == rfc5444_writer_add_address(msg, target.packet_data.origNode.addr,
                                         TRUE)
        m2 == rfc5444_writer_add_address(m1, target.packet_data.targNode.addr,
                                         FALSE)
        m3 == rfc5444_writer_add_addrtlv(m2, _rreq_addrtlvs, 1,
                  RFC5444_MSGTLV_ORIGSEQNUM,
                  target.packet_data.origNode.seqnum, FALSE)
        m4 == rfc5444_writer_add_addrtlv(m3, _rreq_addrtlvs, 1,
                  RFC5444_MSGTLV_METRIC,
                  target.packet_data.origNode.metric, FALSE)
    IN  [msg |-> m4, seqnum |-> s]

(* variant: the RREQ carries the node's own sequence number *)
_cb_rreq_add_addresses_ownseqnum(msg, target, s) ==
    LET m1 == rfc5444_writer_add_address(msg, target.packet_data.origNode.addr,
                                         TRUE)
        m2 == rfc5444_writer_add_address(m1, target.packet_data.targNode.addr,
                                         TRUE)
        m3 == rfc5444_writer_add_addrtlv(m2, _rreq_addrtlvs, 1,
                  RFC5444_MSGTLV_ORIGSEQNUM, aodvv2_seqnum_get(s), FALSE)
        m4 == rfc5444_writer_add_addrtlv(m3, _rreq_addrtlvs, 1,
                  RFC5444_MSGTLV_METRIC,
                  target.packet_data.origNode.metric, FALSE)
    IN  [msg |-> m4, seqnum |-> s]

(* result: the message, and the sequence number as the callback leaves it *)
_cb_rreq_add_addresses(msg, target, s) ==
    LET m1 == rfc5444_writer_add_address(msg, target.packet_data.origNode.addr,
                                         TRUE)
        orig_node_addr == Len(m1.addrs)
        m2 == rfc5444_writer_add_address(m1, target.packet_data.targNode.addr,
                                         TRUE)
        m3 == rfc5444_writer_add_addrtlv(m2, _rreq_addrtlvs, orig_node_addr,
                  RFC5444_MSGTLV_ORIGSEQNUM,
                  target.packet_data.origNode.seqnum, FALSE)
        m4 == rfc5444_writer_add_addrtlv(m3, _rreq_addrtlvs, orig_node_addr,
                  RFC5444_MSGTLV_METRIC,
                  target.packet_data.origNode.metric, FALSE)
    IN  [msg |-> m4, seqnum |-> s]

(* the RREP callback with the sequence number read and advanced as given *)
RrepVariant(msg, target, targ_node_seqnum, s1) ==
    LET m1 == rfc5444_writer_add_address(msg, target.packet_data.origNode.addr,
                                         TRUE)
        m2 == rfc5444_writer_add_address(m1, target.packet_data.targNode.addr,
                                         TRUE)
        m3 == rfc5444_writer_add_addrtlv(m2, _rrep_addrtlvs, 1,
                  RFC5444_MSGTLV_ORIGSEQNUM,
                  target.packet_data.origNode.seqnum, FALSE)
        m4 == rfc5444_writer_add_addrtlv(m3, _rrep_addrtlvs, 2,
                  RFC5444_MSGTLV_TARGSEQNUM, targ_node_seqnum, FALSE)
        m5 == rfc5444_writer_add_addrtlv(m4, _rrep_addrtlvs, 2,
                  RFC5444_MSGTLV_METRIC, target.packet_data.targNode.metric,
                  FALSE)
    IN  [msg |-> m5, seqnum |-> s1]

(* variant: the sequence number is read after the increment *)
_cb_rrep_add_addresses_getafterinc(msg, target, s) ==
    RrepVariant(msg, target, aodvv2_seqnum_get(aodvv2_seqnum_inc(s)),
                aodvv2_seqnum_inc(s))

(* variant: the sequence number is incremented twice *)
_cb_rrep_add_addresses_inctwice(msg, target, s) ==
    RrepVariant(msg, target, aodvv2_seqnum_get(s),
                aodvv2_seqnum_inc(aodvv2_seqnum_inc(s)))

(* variant: the metric TLV of a RREP is attached to the originator address *)
_cb_rrep_add_addresses_metricorig(msg, target, s) ==
    LET m1 == rfc5444_writer_add_address(msg, target.packet_data.origNode.addr,
                                         TRUE)
        m2 == rfc5444_writer_add_address(m1, target.packet_data.targNode.addr,
                                         TRUE)
        m3 == rfc5444_writer_add_addrtlv(m2, _rrep_addrtlvs, 1,
                  RFC5444_MSGTLV_ORIGSEQNUM,
                  target.packet_data.origNode.seqnum, FALSE)
        m4 == rfc5444_writer_add_addrtlv(m3, _rrep_addrtlvs, 2,
                  RFC5444_MSGTLV_TARGSEQNUM, aodvv2_seqnum_get(s), FALSE)
        m5 == rfc5444_writer_add_addrtlv(m4, _rrep_addrtlvs, 1,
                  RFC5444_MSGTLV_METRIC, target.packet_data.targNode.metric,
                  FALSE)
    IN  [msg |-> m5, seqnum |-> aodvv2_seqnum_inc(s)]

(* variant: the RREP carries the metric of the originator node *)
_cb_rrep_add_addresses_origmetric(msg, target, s) ==
    LET m1 == rfc5444_writer_add_address(msg, target.packet_data.origNode.addr,
                                         TRUE)
        m2 == rfc5444_writer_add_address(m1, target.packet_data.targNode.addr,
                                         TRUE)
        m3 == rfc5444_writer_add_addrtlv(m2, _rrep_addrtlvs, 1,
                  RFC5444_MSGTLV_ORIGSEQNUM,
                  target.packet_data.origNode.seqnum, FALSE)
        m4 == rfc5444_writer_add_addrtlv(m3, _rrep_addrtlvs, 2,
                  RFC5444_MSGTLV_TARGSEQNUM, aodvv2_seqnum_get(s), FALSE)
        m5 == rfc5444_writer_add_addrtlv(m4, _rrep_addrtlvs, 2,
                  RFC5444_MSGTLV_METRIC, target.packet_data.origNode.metric,
                  FALSE)
    IN  [msg |-> m5, seqnum |-> aodvv2_seqnum_inc(s)]

(* variant: the sequence number is not advanced *)
_cb_rrep_add_addresses_noinc(msg, target, s) ==
    RrepVariant(msg, target, aodvv2_seqnum_get(s), s)

_cb_rrep_add_addresses(msg, target, s) ==
    LET orig_node_seqnum == target.packet_data.origNode.seqnum
        targ_node_seqnum == aodvv2_seqnum_get(s)
        s1 == aodvv2_seqnum_inc(s)
        targ_node_hopct == target.packet_data.targNode.metric
        m1 == rfc5444_writer_add_address(msg, target.packet_data.origNode.addr,
                                         TRUE)
        orig_node_addr == Len(m1.addrs)
        m2 == rfc5444_writer_add_address(m1, target.packet_data.targNode.addr,
                                         TRUE)
        targ_node_addr == Len(m2.addrs)
        m3 == rfc5444_writer_add_addrtlv(m2, _rrep_addrtlvs, orig_node_addr,
                  RFC5444_MSGTLV_ORIGSEQNUM, orig_node_seqnum, FALSE)
        m4 == rfc5444_writer_add_addrtlv(m3, _rrep_addrtlvs, targ_node_addr,
                  RFC5444_MSGTLV_TARGSEQNUM, targ_node_seqnum, FALSE)
        m5 == rfc5444_writer_add_addrtlv(m4, _rrep_addrtlvs, targ_node_addr,
                  RFC5444_MSGTLV_METRIC, targ_node_hopct, FALSE)
    IN  [msg |-> m5, seqnum |-> s1]

(* the registered messages as aodvv2_packet_writer_init leaves them: the   *)
(* name of the function stored in addMessageHeader                         *)
_rreq_msg ==
    [type |-> RFC5444_MSGTYPE_RREQ,
     addMessageHeader |-> "_cb_add_message_header"]

_rrep_msg ==
    [type |-> RFC5444_MSGTYPE_RREP,
     addMessageHeader |-> "_cb_add_message_header"]

(* the callbacks writer.c has a body for *)
DefinedCallbacks ==
    {"_cb_addMessageHeader", "_cb_rreq_add_addresses", "_cb_rrep_add_addresses"}

(* the message of the given type as the writer builds it for the target:   *)
(* header callback first, then the content provider of that message type   *)
rfc5444_writer_create_message_alltarget(type, target, s) ==
    LET hdr == _cb_add_message_header(NewMessage(type), target)
    IN  IF type = RFC5444_MSGTYPE_RREQ
        THEN _cb_rreq_add_addresses(hdr, target, s)
        ELSE _cb_rrep_add_addresses(hdr, target, s)

(* ---- state after aodvv2_packet_writer_init ---- *)
Init ==
    /\ pc = [t \in Threads |-> "idle"]
    /\ call = [t \in Threads |-> NoCall]
    /\ ret = [t \in Threads |-> "none"]
    /\ writer_mutex = 0
    /\ _target = [type |-> "", packet_data |-> NoData, target_addr |-> ""]
    /\ _packet_buffer = <<>>
    /\ seqnum \in SeqnumStarts
    /\ seqnum0 = seqnum
    /\ sent = <<>>
    /\ lockOrder = <<>>
    /\ ncalls = 0

(* variant: only packet_data is checked *)
assert_args_dataonly(a) == "packet_data" \notin a.absent

(* assert(packet_data != NULL && next_hop != NULL) *)
assert_args(a) == a.absent = {}

(* the process has stopped on a failed assertion *)
Aborted == \E t \in Threads : pc[t] = "abort"

(* the threads that can take a step *)
Running == IF Aborted THEN {} ELSE Threads

(* ---- a thread enters send_rreq or send_rrep: the assertion passes and   *)
(* the call goes on to the lock, or it fails and the process stops ---- *)
Enter(t, type) ==
    /\ pc[t] \in {"idle", "done"}
    /\ ncalls < MaxCalls
    /\ \E a \in Args :
          IF assert_args(a)
          THEN /\ call' = [call EXCEPT ![t] =
                             [id |-> ncalls + 1, type |-> type,
                              packet_data |-> a.packet_data,
                              next_hop |-> a.next_hop, given |-> a]]
               /\ ncalls' = ncalls + 1
               /\ pc' = [pc EXCEPT ![t] = "lock"]
          ELSE /\ call' = [call EXCEPT ![t] =
                             [id |-> 0, type |-> type,
                              packet_data |-> a.packet_data,
                              next_hop |-> a.next_hop, given |-> a]]
               /\ ncalls' = ncalls
               /\ pc' = [pc EXCEPT ![t] = "abort"]
    /\ ret' = [ret EXCEPT ![t] = "none"]
    /\ UNCHANGED <<writer_mutex, _target, _packet_buffer, seqnum, sent,
                   lockOrder, seqnum0>>

aodvv2_packet_writer_send_rreq(t) == Enter(t, RFC5444_MSGTYPE_RREQ)

aodvv2_packet_writer_send_rrep(t) == Enter(t, RFC5444_MSGTYPE_RREP)

(* variant: the lock is not taken *)
mutex_lock_enabled_nolock(t) == TRUE

(* mutex_lock(&writer_mutex): blocks while another thread owns the mutex *)
mutex_lock_enabled(t) == writer_mutex = 0

mutex_lock(t) ==
    /\ pc[t] = "lock"
    /\ mutex_lock_enabled(t)
    /\ writer_mutex' = t
    /\ lockOrder' = Append(lockOrder, call[t].id)
    /\ pc' = [pc EXCEPT ![t] = "copy"]
    /\ UNCHANGED <<call, ret, _target, _packet_buffer, seqnum, sent, ncalls,
                   seqnum0>>

(* variant: send_rrep keeps the hop limit of the packet data *)
SendHoplimit_fromdata(c) == c.packet_data.hoplimit

(* the hop limit the send function stores after the memcpy *)
SendHoplimit(c) ==
    IF c.type = RFC5444_MSGTYPE_RREQ
    THEN c.packet_data.hoplimit
    ELSE AODVV2_MAX_HOPCOUNT

(* variant: send_rrep writes the maximum hop count through the pointer *)
CallerData_overridden(c) ==
    [c.packet_data EXCEPT !.hoplimit =
        IF c.type = RFC5444_MSGTYPE_RREQ THEN @ ELSE AODVV2_MAX_HOPCOUNT]

(* the caller's packet data after the copy: it is only read *)
CallerData(c) == c.packet_data

(* memcpy(&_target.packet_data, ...); _target.type = ...; hoplimit = ... *)
CopyPacketData(t) ==
    /\ pc[t] = "copy"
    /\ call' = [call EXCEPT ![t].packet_data = CallerData(call[t])]
    /\ _target' = [_target EXCEPT
                     !.packet_data = [call[t].packet_data EXCEPT
                                        !.hoplimit = SendHoplimit(call[t])],
                     !.type = call[t].type]
    /\ pc' = [pc EXCEPT ![t] = "addr"]
    /\ UNCHANGED <<ret, writer_mutex, _packet_buffer, seqnum, sent,
                   lockOrder, ncalls, seqnum0>>

(* memcpy(&_target.target_addr, next_hop, sizeof(struct netaddr)) *)
CopyNextHop(t) ==
    /\ pc[t] = "addr"
    /\ _target' = [_target EXCEPT !.target_addr = call[t].next_hop]
    /\ pc' = [pc EXCEPT ![t] = "create"]
    /\ UNCHANGED <<call, ret, writer_mutex, _packet_buffer, seqnum, sent,
                   lockOrder, ncalls, seqnum0>>

(* rfc5444_writer_create_message_alltarget(&writer, <type of the call>) *)
CreateMessage(t) ==
    /\ pc[t] = "create"
    /\ LET r == rfc5444_writer_create_message_alltarget(call[t].type, _target,
                                                        seqnum)
       IN  /\ _packet_buffer' =
                Append(_packet_buffer, [msg |-> r.msg, by |-> call[t].id])
           /\ seqnum' = r.seqnum
    /\ pc' = [pc EXCEPT ![t] = "flush"]
    /\ UNCHANGED <<call, ret, writer_mutex, _target, sent, lockOrder, ncalls,
                   seqnum0>>

(* variant: a failed send is tried once more *)
FlushAttempts_retry(ok) == IF ok THEN 1 ELSE 2

(* how often the flush hands a non-empty packet buffer to sendPacket when  *)
(* the first attempt had the given outcome                                 *)
FlushAttempts(ok) == 1

(* rfc5444_writer_flush(&writer, &_target.interface, false): a non-empty   *)
(* packet buffer goes to sendPacket, which sends it to _target.target_addr *)
(* and succeeds or fails; the buffer is empty afterwards                   *)
Flush(t) ==
    /\ pc[t] = "flush"
    /\ IF _packet_buffer = <<>>
       THEN UNCHANGED sent
       ELSE \E ok \in BOOLEAN :
               sent' = sent \o
                   [i \in 1..FlushAttempts(ok) |->
                       [packet |-> _packet_buffer,
                        dst |-> _target.target_addr,
                        ok |-> ok,
                        by |-> call[t].id,
                        call |-> call[t]]]
    /\ _packet_buffer' = <<>>
    /\ pc' = [pc EXCEPT ![t] = "unlock"]
    /\ UNCHANGED <<call, ret, writer_mutex, _target, seqnum, lockOrder, ncalls,
                   seqnum0>>

(* the sendPacket callback invoked by the flush does not return: the     *)
(* thread stays in the flush, owning the mutex                             *)
SenderHangs(t) ==
    /\ pc[t] = "flush"
    /\ _packet_buffer # <<>>
    /\ sent' = Append(sent, [packet |-> _packet_buffer,
                             dst |-> _target.target_addr,
                             ok |-> FALSE,
                             by |-> call[t].id,
                             call |-> call[t]])
    /\ pc' = [pc EXCEPT ![t] = "hung"]
    /\ UNCHANGED <<call, ret, writer_mutex, _target, _packet_buffer, seqnum,
                   lockOrder, ncalls, seqnum0>>

(* mutex_unlock(&writer_mutex), then the void function returns *)
mutex_unlock(t) ==
    /\ pc[t] = "unlock"
    /\ writer_mutex' = IF writer_mutex = t THEN 0 ELSE writer_mutex
    /\ pc' = [pc EXCEPT ![t] = "done"]
    /\ ret' = [ret EXCEPT ![t] = "void"]
    /\ UNCHANGED <<call, _target, _packet_buffer, seqnum, sent, lockOrder,
                   ncalls, seqnum0>>

Next ==
    \E t \in Running :
        \/ aodvv2_packet_writer_send_rreq(t)
        \/ aodvv2_packet_writer_send_rrep(t)
        \/ mutex_lock(t)
        \/ CopyPacketData(t)
        \/ CopyNextHop(t)
        \/ CreateMessage(t)
        \/ Flush(t)
        \/ SenderHangs(t)
        \/ mutex_unlock(t)

Spec == Init /\ [][Next]_vars

(* a step of thread t inside a send, once it owns the mutex *)
Proceed(t) ==
    /\ t \in Running
    /\ \/ CopyPacketData(t)
       \/ CopyNextHop(t)
       \/ CreateMessage(t)
       \/ Flush(t)
       \/ mutex_unlock(t)

(* thread t gets the mutex *)
Acquire(t) == t \in Running /\ mutex_lock(t)

(* scheduling: a thread that owns the mutex keeps running; the mutex is    *)
(* fair, a thread waiting for it gets it when it is free again and again.  *)
(* Nothing makes a thread call, and nothing makes the sender return.       *)
Fairness ==
    \A t \in Threads : WF_vars(Proceed(t)) /\ SF_vars(Acquire(t))

(* progress does not depend on the data of the calls: under the fair      *)
(* specification every call passes the next hop "E" (with its packet data, *)
(* or with one of the two arguments absent)                                *)
FairNext ==
    /\ Next
    /\ \A t \in Threads : call'[t].given.next_hop \in {"", "E"}

FairSpec == Init /\ [][FairNext]_vars /\ Fairness

TypeOK ==
    /\ pc \in [Threads -> {"idle", "lock", "copy", "addr", "create", "flush",
                           "unlock", "done", "abort", "hung"}]
    /\ writer_mutex \in {0} \cup Threads
    /\ seqnum \in 0..(UINT16_MOD - 1)
    /\ ncalls \in 0..MaxCalls
    /\ Len(sent) <= MaxCalls

(* ======================= properties ==================================== *)

(* the messages handed to sendPacket so far, in order, each with the call  *)
(* that flushed it                                                         *)
Handed ==
    { <<i, j>> \in (1..Len(sent)) \X (1..MaxCalls) : j <= Len(sent[i].packet) }

(* values of the TLVs of one type attached to one address of a message *)
TlvValues(msg, address, tlvtype) ==
    { msg.tlvs[k].value :
        k \in { n \in 1..Len(msg.tlvs) : /\ msg.tlvs[n].address = address
                                         /\ msg.tlvs[n].type = tlvtype } }

(* threads inside a send that has not yet passed its flush *)
BeforeFlush ==
    { t \in Threads : pc[t] \in {"lock", "copy", "addr", "create", "flush"} }

(* one step of the sequence number: 16 bit, wrapping to 1 *)
Step(s) == IF s = 65535 THEN 1 ELSE s + 1

RECURSIVE StepN(_, _)
StepN(s, n) == IF n = 0 THEN s ELSE Step(StepN(s, n - 1))

(* C1: every call that passed its flush handed exactly one message to the  *)
(* sender (N completed calls, N messages), and every field of that message *)
(* that is taken from packet data is that of the arguments of the one call *)
(* that flushed it: kind, hop limit, both addresses, the TLV values.       *)
C1_OneConsistentMessagePerCall ==
    /\ Len(sent) = ncalls - Cardinality(BeforeFlush)
    /\ \A i \in 1..Len(sent) :
          LET c == sent[i].call
              d == c.packet_data
          IN  /\ Len(sent[i].packet) = 1
              /\ \A k \in 1..Len(sent) : sent[k].by = sent[i].by => k = i
              /\ LET m == sent[i].packet[1].msg
                 IN  /\ sent[i].packet[1].by = c.id
                     /\ m.type = c.type
                     /\ m.header.hoplimit \in {d.hoplimit, AODVV2_MAX_HOPCOUNT}
                     /\ Len(m.addrs) = 2
                     /\ m.addrs[1].addr = d.origNode.addr
                     /\ m.addrs[2].addr = d.targNode.addr
                     /\ TlvValues(m, 1, RFC5444_MSGTLV_ORIGSEQNUM)
                           = {d.origNode.seqnum}
                     /\ m.type = RFC5444_MSGTYPE_RREQ =>
                           TlvValues(m, 1, RFC5444_MSGTLV_METRIC)
                              = {d.origNode.metric}
                     /\ m.type = RFC5444_MSGTYPE_RREP =>
                           TlvValues(m, 2, RFC5444_MSGTLV_METRIC)
                              = {d.targNode.metric}

(* C1 witness: a send waits for the mutex with other arguments while a     *)
(* send of another thread is about to flush, after a message went out      *)
C1_Witness ==
    \E t1, t2 \in Threads :
        /\ pc[t1] = "flush" /\ pc[t2] = "lock"
        /\ call[t1].packet_data # call[t2].packet_data
        /\ Len(sent) >= 1

(* RREP messages built so far: handed to the sender or still in the       *)
(* buffer (both, while the sender runs), counted by the call that built    *)
(* them                                                                    *)
RrepsBuilt ==
    Cardinality(
        { sent[p[1]].packet[p[2]].by :
            p \in { q \in Handed : sent[q[1]].packet[q[2]].msg.type
                                      = RFC5444_MSGTYPE_RREP } }
        \cup
        { _packet_buffer[j].by :
            j \in { k \in 1..Len(_packet_buffer) :
                      _packet_buffer[k].msg.type = RFC5444_MSGTYPE_RREP } })

(* C2: no step of a send_rreq call changes the sequence number; of a       *)
(* send_rrep call only the message construction changes it, by exactly one *)
(* step; so the counter is always its start value advanced by as many      *)
(* steps as RREPs were built, whatever RREQs were sent in between.         *)
C2_CounterAdvancesOncePerRrep ==
    /\ [](seqnum = StepN(seqnum0, RrepsBuilt))
    /\ [][\A t \in Threads :
            pc'[t] # pc[t] =>
               IF /\ call'[t].type = RFC5444_MSGTYPE_RREP
                  /\ pc[t] = "create"
               THEN seqnum' = Step(seqnum)
               ELSE seqnum' = seqnum]_vars

(* C2 witness: RREQs and RREPs were both sent and the counter has moved *)
C2_Witness ==
    /\ \E i \in 1..Len(sent) : sent[i].call.type = RFC5444_MSGTYPE_RREQ
    /\ \E i \in 1..Len(sent) : sent[i].call.type = RFC5444_MSGTYPE_RREP
    /\ RrepsBuilt >= 2
    /\ seqnum # seqnum0

(* C3: when a send_rrep call builds its message, the target sequence       *)
(* number TLV of that message is the value the counter had just before the *)
(* step, and the counter is incremented in that same step.                 *)
C3_TargSeqnumIsValueBeforeInc ==
    [][\A t \in Threads :
         (/\ pc[t] = "create" /\ pc'[t] = "flush"
          /\ call[t].type = RFC5444_MSGTYPE_RREP) =>
            /\ Len(_packet_buffer') = Len(_packet_buffer) + 1
            /\ LET m == _packet_buffer'[Len(_packet_buffer')].msg
               IN  TlvValues(m, 2, RFC5444_MSGTLV_TARGSEQNUM) = {seqnum}
            /\ seqnum' # seqnum]_vars

(* C3 witness: a RREP went out while another send was waiting, carrying    *)
(* a target sequence number that the counter has left behind               *)
C3_Witness ==
    \E i \in 1..Len(sent) :
        /\ sent[i].call.type = RFC5444_MSGTYPE_RREP
        /\ TlvValues(sent[i].packet[1].msg, 2, RFC5444_MSGTLV_TARGSEQNUM)
              = {seqnum0}
        /\ seqnum = Step(seqnum0)
        /\ \E t \in Threads : pc[t] = "lock"

(* C4: the header of every RREQ handed to the sender has the hop limit of  *)
(* the packet data of its call; the header of every RREP has the maximum   *)
(* hop count, whatever hop limit its call was given.                       *)
C4_HopLimit ==
    \A p \in Handed :
        LET m == sent[p[1]].packet[p[2]].msg
            c == sent[p[1]].call
        IN  /\ m.header.has_hoplimit
            /\ m.type = RFC5444_MSGTYPE_RREQ =>
                  m.header.hoplimit = c.packet_data.hoplimit
            /\ m.type = RFC5444_MSGTYPE_RREP =>
                  m.header.hoplimit = AODVV2_MAX_HOPCOUNT

(* C4 witness: a RREQ and a RREP went out, the RREP for packet data whose  *)
(* hop limit is not the maximum hop count                                  *)
C4_Witness ==
    /\ \E i \in 1..Len(sent) : sent[i].call.type = RFC5444_MSGTYPE_RREQ
    /\ \E i \in 1..Len(sent) :
          /\ sent[i].call.type = RFC5444_MSGTYPE_RREP
          /\ sent[i].call.packet_data.hoplimit # AODVV2_MAX_HOPCOUNT

(* C5: the sequence number is never 0, no RREP carries target sequence     *)
(* number 0, and the step that changes the counter from 65535 leaves 1.    *)
C5_NeverZero ==
    /\ [](seqnum # 0)
    /\ [](\A p \in Handed :
            0 \notin TlvValues(sent[p[1]].packet[p[2]].msg, 2,
                               RFC5444_MSGTLV_TARGSEQNUM))
    /\ [][(seqnum = 65535 /\ seqnum' # seqnum) => seqnum' = 1]_vars

(* C5 witness: a RREP carrying 65535 went out and the counter is 1 *)
C5_Witness ==
    /\ seqnum = 1
    /\ \E i \in 1..Len(sent) :
          65535 \in TlvValues(sent[i].packet[1].msg, 2,
                              RFC5444_MSGTLV_TARGSEQNUM)

(* C6: the calls' messages reach the sender in the order in which the      *)
(* calls got the mutex; and whenever the sender is invoked, the invoking   *)
(* thread owns the mutex, its call is the latest that got the mutex (no    *)
(* later send has begun), _target still holds what that call stored, and   *)
(* the packet is the one complete message built by that call.              *)
C6_LockOrderAndCompleteMessage ==
    /\ [](\A i \in 1..Len(sent) :
            i <= Len(lockOrder) /\ sent[i].by = lockOrder[i])
    /\ [][Len(sent') > Len(sent) =>
            \E t \in Threads :
               /\ pc[t] = "flush" /\ writer_mutex = t
               /\ lockOrder[Len(lockOrder)] = call[t].id
               /\ \A u \in Threads \ {t} :
                     pc[u] \notin {"copy", "addr", "create", "flush", "unlock"}
               /\ _target.type = call[t].type
               /\ _target.packet_data.origNode = call[t].packet_data.origNode
               /\ _target.packet_data.targNode = call[t].packet_data.targNode
               /\ _target.target_addr = call[t].next_hop
               /\ Len(sent') = Len(sent) + 1
               /\ LET p == sent'[Len(sent')].packet
                  IN  /\ Len(p) = 1
                      /\ p[1].by = call[t].id
                      /\ p[1].msg.type = call[t].type
                      /\ p[1].msg.header.has_hoplimit
                      /\ Len(p[1].msg.addrs) = 2
                      /\ Len(p[1].msg.tlvs) =
                            IF call[t].type = RFC5444_MSGTYPE_RREQ THEN 2 ELSE 3
         ]_vars

(* C6 witness: two messages went out, the later call's first, because it   *)
(* got the mutex first                                                     *)
C6_Witness ==
    /\ Len(sent) >= 2
    /\ sent[1].by > sent[2].by
    /\ lockOrder[1] > lockOrder[2]

RrepSent ==
    { i \in 1..Len(sent) :
        /\ Len(sent[i].packet) >= 1
        /\ sent[i].packet[1].msg.type = RFC5444_MSGTYPE_RREP }

(* C8: of two RREPs sent one after the other, with any number of RREQs     *)
(* and no RREP between them, the second carries the target sequence number *)
(* one step after that of the first.                                       *)
C8_ConsecutiveRrepsOneStepApart ==
    \A i, k \in RrepSent :
        (i < k /\ \A j \in RrepSent : ~(i < j /\ j < k)) =>
           LET first == TlvValues(sent[i].packet[1].msg, 2,
                                  RFC5444_MSGTLV_TARGSEQNUM)
               second == TlvValues(sent[k].packet[1].msg, 2,
                                   RFC5444_MSGTLV_TARGSEQNUM)
           IN  /\ Cardinality(first) = 1
               /\ second = { Step(v) : v \in first }

(* C8 witness: two RREPs for the same packet data with a RREQ in between,  *)
(* the first carrying 65535                                                *)
C8_Witness ==
    /\ Len(sent) >= 3
    /\ sent[1].call.type = RFC5444_MSGTYPE_RREP
    /\ sent[2].call.type = RFC5444_MSGTYPE_RREQ
    /\ sent[3].call.type = RFC5444_MSGTYPE_RREP
    /\ sent[1].call.packet_data = sent[3].call.packet_data
    /\ seqnum0 # 1

(* C9: every message handed to the sender has exactly two addresses, the   *)
(* originator address then the target address of the packet data of its    *)
(* call, both mandatory.                                                   *)
C9_TwoMandatoryAddresses ==
    \A p \in Handed :
        LET m == sent[p[1]].packet[p[2]].msg
            d == sent[p[1]].call.packet_data
        IN  m.addrs = << [addr |-> d.origNode.addr, mandatory |-> TRUE],
                         [addr |-> d.targNode.addr, mandatory |-> TRUE] >>

(* C9 witness: a RREQ and a RREP went out *)
C9_Witness ==
    /\ \E i \in 1..Len(sent) :
          sent[i].packet[1].msg.type = RFC5444_MSGTYPE_RREQ
    /\ \E i \in 1..Len(sent) :
          sent[i].packet[1].msg.type = RFC5444_MSGTYPE_RREP
    /\ \A t \in Threads : pc[t] = "done"

(* the (address, type) pairs of the TLVs of a message, in order *)
TlvPlaces(msg) ==
    [k \in 1..Len(msg.tlvs) |-> <<msg.tlvs[k].address, msg.tlvs[k].type>>]

(* C10: a RREQ has exactly two TLVs, sequence number and metric, both on   *)
(* the originator address; a RREP has exactly three, the originator        *)
(* sequence number on the originator address, the target sequence number   *)
(* and the metric on the target address; no address has a type twice.      *)
C10_AttributeSets ==
    \A p \in Handed :
        LET m == sent[p[1]].packet[p[2]].msg
        IN  /\ m.type = RFC5444_MSGTYPE_RREQ =>
                  /\ Len(m.tlvs) = 2
                  /\ { TlvPlaces(m)[k] : k \in 1..2 } =
                        { <<1, RFC5444_MSGTLV_ORIGSEQNUM>>,
                          <<1, RFC5444_MSGTLV_METRIC>> }
            /\ m.type = RFC5444_MSGTYPE_RREP =>
                  /\ Len(m.tlvs) = 3
                  /\ { TlvPlaces(m)[k] : k \in 1..3 } =
                        { <<1, RFC5444_MSGTLV_ORIGSEQNUM>>,
                          <<2, RFC5444_MSGTLV_TARGSEQNUM>>,
                          <<2, RFC5444_MSGTLV_METRIC>> }
            /\ \A a, b \in 1..Len(m.tlvs) :
                  TlvPlaces(m)[a] = TlvPlaces(m)[b] => a = b

(* C10 witness: a RREQ with two and a RREP with three TLVs went out *)
C10_Witness ==
    /\ \E i \in 1..Len(sent) :
          /\ sent[i].packet[1].msg.type = RFC5444_MSGTYPE_RREQ
          /\ Len(sent[i].packet[1].msg.tlvs) = 2
    /\ \E i \in 1..Len(sent) :
          /\ sent[i].packet[1].msg.type = RFC5444_MSGTYPE_RREP
          /\ Len(sent[i].packet[1].msg.tlvs) = 3

(* threads that own the writer: between getting the mutex and returning *)
Composing ==
    { t \in Threads :
        pc[t] \in {"copy", "addr", "create", "flush", "hung", "unlock"} }

(* some sender invocation has not returned *)
SenderStuck == \E t \in Threads : pc[t] = "hung"

(* C11: at most one call is composing at any time; a call that got the     *)
(* mutex, and under the fair mutex a call that waits for it, eventually    *)
(* returns, unless a sender invocation never returns or the process stops  *)
(* on a failed assertion.                                                  *)
C11_SendsComplete ==
    /\ [](Cardinality(Composing) <= 1)
    /\ [](\A t \in Composing : writer_mutex = t)
    /\ \A t \in Threads :
          (pc[t] \in {"lock", "copy", "addr", "create", "flush", "unlock"})
             ~> (pc[t] = "done" \/ SenderStuck \/ Aborted)

(* C11 witness: a call that had to wait for the mutex has returned, and    *)
(* the call it waited for as well                                          *)
C11_Witness ==
    /\ \A t \in Threads : pc[t] = "done"
    /\ Len(lockOrder) >= 2
    /\ lockOrder[1] > lockOrder[2]
    /\ writer_mutex = 0

(* C12: a call with an absent packet_data or next_hop stops on the         *)
(* assertion: it never waits for or owns the mutex, the step in which it   *)
(* fails changes neither the mutex, _target, the packet buffer, the        *)
(* sequence number nor what the sender has received, and nothing happens   *)
(* afterwards.                                                             *)
C12_AbsentArgumentFailsBeforeLock ==
    /\ [](\A t \in Threads :
            call[t].given.absent # {} =>
               /\ pc[t] = "abort"
               /\ writer_mutex # t
               /\ \A i \in 1..Len(sent) : sent[i].call.given.absent = {})
    /\ [][\A t \in Threads :
            (pc[t] # "abort" /\ pc'[t] = "abort") =>
               UNCHANGED <<writer_mutex, _target, _packet_buffer, seqnum,
                           sent, lockOrder>>]_vars
    /\ [][Aborted => UNCHANGED vars]_vars

(* C12 witness: after a RREP went out, a call without next_hop has failed  *)
(* while the mutex was free                                                *)
C12_Witness ==
    \E t \in Threads :
        /\ pc[t] = "abort"
        /\ call[t].given.absent = {"next_hop"}
        /\ writer_mutex = 0
        /\ Len(sent) >= 1
        /\ seqnum # seqnum0

(* what a receiver reads from a message: the hop limit of the header when  *)
(* the header has one, the addresses with their flags, and for each TLV    *)
(* the address it belongs to, its type and its value                       *)
Decode(msg) ==
    [hoplimit |-> IF msg.header.has_hoplimit
                  THEN {msg.header.hoplimit} ELSE {},
     addresses |-> [k \in 1..Len(msg.addrs) |->
                      <<msg.addrs[k].addr, msg.addrs[k].mandatory>>],
     attributes |-> { <<msg.addrs[msg.tlvs[k].address].addr, msg.tlvs[k].type,
                        msg.tlvs[k].value>> : k \in 1..Len(msg.tlvs) }]

(* C13: every RREQ handed to the sender decodes to the originator sequence *)
(* number and originator metric of the packet data of its call and to the  *)
(* hop limit of that data, whatever the node's own sequence number is; the *)
(* call with {orig=(A,5,0), hoplimit=10} yields {origseqnum=5,             *)
(* origmetric=0, hoplimit=10}.                                             *)
C13_RreqRoundTrip ==
    \A i \in 1..Len(sent) :
        LET d == sent[i].call.given.packet_data
            r == Decode(sent[i].packet[1].msg)
        IN  sent[i].call.type = RFC5444_MSGTYPE_RREQ =>
               /\ r.hoplimit = {d.hoplimit}
               /\ r.addresses = << <<d.origNode.addr, TRUE>>,
                                   <<d.targNode.addr, TRUE>> >>
               /\ r.attributes =
                     { <<d.origNode.addr, RFC5444_MSGTLV_ORIGSEQNUM,
                         d.origNode.seqnum>>,
                       <<d.origNode.addr, RFC5444_MSGTLV_METRIC,
                         d.origNode.metric>> }
               /\ (d.origNode = NodeData("A", 5, 0) /\ d.hoplimit = 10) =>
                     /\ r.hoplimit = {10}
                     /\ r.attributes =
                           { <<"A", RFC5444_MSGTLV_ORIGSEQNUM, 5>>,
                             <<"A", RFC5444_MSGTLV_METRIC, 0>> }

(* C13 witness: the RREQ of the example went out after a RREP had moved    *)
(* the node's sequence number, which is not 5                              *)
C13_Witness ==
    /\ Len(sent) >= 2
    /\ sent[1].call.type = RFC5444_MSGTYPE_RREP
    /\ sent[2].call.type = RFC5444_MSGTYPE_RREQ
    /\ sent[2].call.given.packet_data.origNode = NodeData("A", 5, 0)
    /\ sent[2].call.given.packet_data.hoplimit = 10
    /\ seqnum # 5

(* the statements of a send that write _target, the packet buffer or the   *)
(* sequence number                                                         *)
WritingPcs == {"copy", "addr", "create", "flush"}

(* C14: every step that changes _target, the packet buffer or the sequence *)
(* number, and every step of a statement that writes them, is a step of    *)
(* the one thread that owns the mutex before and after the step.           *)
C14_WritesOnlyByLockHolder ==
    [][(\/ _target' # _target
        \/ _packet_buffer' # _packet_buffer
        \/ seqnum' # seqnum
        \/ \E t \in Threads : pc[t] \in WritingPcs /\ pc'[t] # pc[t])
       => \E t \in Threads :
             /\ writer_mutex = t /\ writer_mutex' = t
             /\ pc[t] \in WritingPcs /\ pc'[t] # pc[t]
             /\ \A u \in Threads \ {t} : pc'[u] = pc[u]]_vars

(* C14 witness: the owner of the mutex has overwritten _target with its    *)
(* own packet data after an earlier send with other data, while another    *)
(* call waits for the mutex                                                *)
C14_Witness ==
    \E t, u \in Threads :
        /\ pc[t] = "create" /\ writer_mutex = t
        /\ pc[u] = "lock"
        /\ Len(sent) >= 1
        /\ sent[Len(sent)].call.packet_data # call[t].packet_data
        /\ _target.packet_data.origNode = call[t].packet_data.origNode
        /\ _target.target_addr = call[t].next_hop

(* the header of every message built is: no originator address, no hop     *)
(* count, a hop limit, no sequence number; and a message is built with the *)
(* hop limit that _target.packet_data holds at that moment                 *)
HeaderShape ==
    /\ [](\A p \in Handed :
            LET h == sent[p[1]].packet[p[2]].msg.header
            IN  /\ ~h.has_origaddr /\ ~h.has_hopcount
                /\ h.has_hoplimit /\ ~h.has_seqno)
    /\ [][Len(_packet_buffer') > Len(_packet_buffer) =>
            _packet_buffer'[Len(_packet_buffer')].msg.header.hoplimit
               = _target.packet_data.hoplimit]_vars

(* C15: after initialisation one header callback is bound to both the RREQ *)
(* and the RREP message, it is a callback of the program, and it emits     *)
(* the header shape above for every message.                               *)
C15_HeaderCallbackBound ==
    /\ [](/\ _rreq_msg.addMessageHeader = _rrep_msg.addMessageHeader
          /\ _rreq_msg.addMessageHeader \in DefinedCallbacks
          /\ _rrep_msg.addMessageHeader \in DefinedCallbacks)
    /\ HeaderShape

(* number of RREPs handed to the sender before position i of sent *)
RrepsBefore(i) == Cardinality({ j \in RrepSent : j < i })

(* C16: the TLVs of every RREP handed to the sender are exactly: the       *)
(* originator sequence number of the packet data of its call, unchanged;   *)
(* the node's own sequence number as target sequence number; the target    *)
(* metric of that packet data.  The target sequence number and the         *)
(* originator metric of the packet data are in no TLV (the packet data of  *)
(* the calls make these values differ from the ones that are sent).        *)
C16_RrepAttributeValues ==
    \A i \in RrepSent :
        LET d == sent[i].call.given.packet_data
            m == sent[i].packet[1].msg
        IN  /\ sent[i].call.type = RFC5444_MSGTYPE_RREP
            /\ m.tlvs =
                  << [address |-> 1, type |-> RFC5444_MSGTLV_ORIGSEQNUM,
                      value |-> d.origNode.seqnum],
                     [address |-> 2, type |-> RFC5444_MSGTLV_TARGSEQNUM,
                      value |-> StepN(seqnum0, RrepsBefore(i))],
                     [address |-> 2, type |-> RFC5444_MSGTLV_METRIC,
                      value |-> d.targNode.metric] >>
            /\ \A k \in 1..Len(m.tlvs) :
                  /\ m.tlvs[k].type = RFC5444_MSGTLV_TARGSEQNUM =>
                        m.tlvs[k].value # d.targNode.seqnum
                  /\ m.tlvs[k].type = RFC5444_MSGTLV_METRIC =>
                        m.tlvs[k].value # d.origNode.metric

(* C16 witness: a RREP went out for packet data whose target sequence      *)
(* number is 9 and whose metrics are 3 (originator) and 2 (target)         *)
C16_Witness ==
    \E i \in RrepSent :
        /\ sent[i].call.given.packet_data.targNode = NodeData("D", 9, 2)
        /\ sent[i].call.given.packet_data.origNode.metric = 3
        /\ TlvValues(sent[i].packet[1].msg, 2, RFC5444_MSGTLV_METRIC) = {2}
        /\ TlvValues(sent[i].packet[1].msg, 1, RFC5444_MSGTLV_ORIGSEQNUM)
              = {65535}

(* C17: every invocation of the sender gets as destination the next hop    *)
(* given to the call that flushes, and the packet it gets is the message   *)
(* built by that same call from that call's packet data.                   *)
C17_DestinationOfSameCall ==
    \A i \in 1..Len(sent) :
        /\ sent[i].dst = sent[i].call.given.next_hop
        /\ \A j \in 1..Len(sent[i].packet) :
              /\ sent[i].packet[j].by = sent[i].by
              /\ sent[i].packet[j].msg.addrs[1].addr
                    = sent[i].call.given.packet_data.origNode.addr

(* C17 witness: two sends with different next hops went out, the first     *)
(* while the second was waiting for the mutex (it was called first)        *)
C17_Witness ==
    /\ Len(sent) >= 2
    /\ sent[1].dst = "F" /\ sent[2].dst = "E"
    /\ sent[1].by > sent[2].by

(* C18: once a sender invocation does not return, its thread owns the      *)
(* mutex for ever, and no other thread gets beyond waiting for the mutex:  *)
(* no further message is built or handed to the sender, and _target and    *)
(* the sequence number stay as they are.                                   *)
C18_StuckSenderStallsAll ==
    /\ [](\A t \in Threads :
            pc[t] = "hung" =>
               /\ writer_mutex = t
               /\ \A u \in Threads \ {t} :
                     pc[u] \in {"idle", "done", "lock", "abort"})
    /\ [][\A t \in Threads :
            pc[t] = "hung" =>
               /\ pc'[t] = "hung"
               /\ UNCHANGED <<writer_mutex, _target, _packet_buffer, seqnum,
                              sent, lockOrder>>]_vars

(* C18 witness: a sender invocation hangs, and a call started after that   *)
(* call waits for the mutex                                                *)
C18_Witness ==
    \E t \in Threads :
        /\ pc[t] = "hung"
        /\ \E u \in Threads \ {t} :
              pc[u] = "lock" /\ call[u].id > call[t].id
        /\ ncalls >= 2

(* C19: from the call to its return, the caller's packet data and next hop *)
(* are what the caller passed; in particular a send_rrep leaves the        *)
(* caller's hop limit alone while the message gets the maximum hop count.  *)
C19_CallerDataUnchanged ==
    \A t \in Threads :
        pc[t] \notin {"idle", "abort"} =>
           /\ call[t].packet_data = call[t].given.packet_data
           /\ call[t].next_hop = call[t].given.next_hop

(* C19 witness: a send_rrep called with hop limit 10 has returned, its     *)
(* message went out with the maximum hop count, and _target holds it       *)
C19_Witness ==
    \E t \in Threads :
        /\ pc[t] = "done"
        /\ call[t].type = RFC5444_MSGTYPE_RREP
        /\ call[t].given.packet_data.hoplimit = 10
        /\ _target.packet_data.hoplimit = AODVV2_MAX_HOPCOUNT
        /\ \E i \in 1..Len(sent) :
              /\ sent[i].by = call[t].id
              /\ sent[i].packet[1].msg.header.hoplimit = AODVV2_MAX_HOPCOUNT

(* C20: the RREPs handed to the sender carry pairwise different target     *)
(* sequence numbers: the RREP of the n-th send_rrep call that got the      *)
(* mutex carries the start value advanced by n-1 steps.                    *)
C20_DistinctConsecutiveSeqnums ==
    \A i \in RrepSent :
        /\ i <= Len(lockOrder) /\ sent[i].by = lockOrder[i]
        /\ TlvValues(sent[i].packet[1].msg, 2, RFC5444_MSGTLV_TARGSEQNUM)
              = {StepN(seqnum0,
                       Cardinality({ j \in 1..(i - 1) :
                           sent[j].call.type = RFC5444_MSGTYPE_RREP }))}
        /\ \A k \in RrepSent :
              k # i =>
                 TlvValues(sent[i].packet[1].msg, 2, RFC5444_MSGTLV_TARGSEQNUM)
                 \cap
                 TlvValues(sent[k].packet[1].msg, 2, RFC5444_MSGTLV_TARGSEQNUM)
                 = {}

(* C20 witness: two send_rrep calls were in progress together, the one     *)
(* called later got the mutex first, and both RREPs went out               *)
C20_Witness ==
    /\ Len(sent) >= 2
    /\ sent[1].call.type = RFC5444_MSGTYPE_RREP
    /\ sent[2].call.type = RFC5444_MSGTYPE_RREP
    /\ sent[1].by > sent[2].by
    /\ lockOrder[1] > lockOrder[2]
====
